---- MODULE Spec2Model ----
(***************************************************************************)
(* Model of stream_man/static/functions.ts and functions.js: the DOM       *)
(* utilities of the playlist page.  The page is the state: the sibling     *)
(* order of the card elements, the classes they carry, the buttons of the  *)
(* double-click interaction, the footer and its padding element, and the   *)
(* cookie jar behind document.cookie.  One action models one call of a     *)
(* function of the source, from entry to return or to the uncaught         *)
(* TypeError that ends it.                                                 *)
(***************************************************************************)
EXTENDS Integers, Sequences, FiniteSets, TLC

\* ------------------------------------------------------------------ bounds
\* Card ids a call may name; the cards on the page are a subset of them.
MaxCards == 3
\* Button ids a call may name; the buttons on the page are a subset of them.
MaxButtons == 4
\* Footer heights, in pixels: 0..MaxHeight.
MaxHeight == 3
\* Mutation batches delivered to the footer's observer in one run.
MaxBatches == 3
\* The form's inputs hold "", "5", "10", ..., the decimal form of 5 * MaxFormStep.
MaxFormStep == 2
\* The larger of the two defaults getCookie is called with (the other is 0).
MaxDefault == 10

CardIds == 1..MaxCards
ButtonIds == 1..MaxButtons

\* null / no element: the value of lastClickedButton before any click, and
\* the result of a querySelector or sibling lookup that finds nothing.
Null == 0

VARIABLES
    order,              \* the card elements (#card-N) in sibling order
    hl,                 \* cards whose #actual-card-N carries "bg-primary"
                        \* (#actual-card-N is rendered with #card-N)
    divs,               \* cards that contain a descendant <div>
    clicked,            \* card whose inner div the last call clicked, or Null
    buttons,            \* buttons that exist with an inner <div>
    lastClickedButton,  \* functions.js: the module-level variable
    sel,                \* buttons whose inner div carries "text-bg-primary"
    invoked,            \* which url function the last call invoked
    err,                \* the last call ended with an uncaught TypeError
    last                \* the last call: [op |-> name, arg |-> id]

uiVars == <<order, hl, divs, clicked, buttons, lastClickedButton, sel, invoked, err, last>>

VARIABLES
    footerHeight,       \* htmxFooter.clientHeight
    paddingHeight,      \* htmxFooterPadding.style.height in px, or NoStyle
    dirty,              \* mutation records are queued for the observer
    pending,            \* setTimeout callbacks scheduled and not yet run
    batches,            \* observer callbacks run so far
    fired               \* timer callbacks run so far

footerVars == <<footerHeight, paddingHeight, dirty, pending, batches, fired>>

VARIABLES
    cookieJar,          \* the cookies behind document.cookie, oldest first
    savedIds,           \* playlists saveVisualConfig has been called for
    savedColumns,       \* per playlist, the columns value of its last save
    savedImageWidth     \* per playlist, the image width of its last save

cookieVars == <<cookieJar, savedIds, savedColumns, savedImageWidth>>

vars == <<uiVars, footerVars, cookieVars>>

\* The elements of a set of ids in increasing order: the order in which the
\* server renders the cards.
RECURSIVE SortedSeq(_)
SortedSeq(S) ==
    IF S = {} THEN <<>>
    ELSE LET m == CHOOSE x \in S : \A y \in S : x <= y
         IN  <<m>> \o SortedSeq(S \ {m})

\* ------------------------------------------------------- DOM sibling lists
\* document.querySelector(`#card-${card_id}`): the element, or Null.
QueryCard(seq, c) == IF \E i \in 1..Len(seq) : seq[i] = c THEN c ELSE Null

\* Position of an element among its siblings.
IndexIn(seq, c) == CHOOSE i \in 1..Len(seq) : seq[i] = c

\* The sibling list with one node detached (a node is inserted only after it
\* has been removed from where it was).
Detach(seq, c) ==
    IF QueryCard(seq, c) = Null THEN seq
    ELSE LET i == IndexIn(seq, c)
         IN  SubSeq(seq, 1, i - 1) \o SubSeq(seq, i + 1, Len(seq))

\* card.previousElementSibling / card.nextElementSibling
PreviousElementSibling(seq, c) ==
    LET i == IndexIn(seq, c) IN IF i > 1 THEN seq[i - 1] ELSE Null

NextElementSibling(seq, c) ==
    LET i == IndexIn(seq, c) IN IF i < Len(seq) THEN seq[i + 1] ELSE Null

\* parentNode.prepend(card)
PrependSwapsWithPrevious(seq, c) ==
    LET i == IndexIn(seq, c)
    IN  IF i > 1 THEN [seq EXCEPT ![i - 1] = seq[i], ![i] = seq[i - 1]] ELSE seq

Prepend(seq, c) == <<c>> \o Detach(seq, c)

\* parentNode.append(card)
AppendNode(seq, c) == Detach(seq, c) \o <<c>>

\* parentNode.insertBefore(node, ref)
InsertBeforeFirst(seq, node, ref) == <<node>> \o Detach(seq, node)

InsertBefore(seq, node, ref) ==
    LET rest == Detach(seq, node)
        j == IndexIn(rest, ref)
    IN  SubSeq(rest, 1, j - 1) \o <<node>> \o SubSeq(rest, j, Len(rest))

\* ------------------------------------------------------------ highlightCard
\* functions.ts highlightCard: the class is removed from every
\* [id^=actual-card-] element, then added to #actual-card-N when it exists.
HighlightKeepsOthers(seq, marked, c) ==
    IF QueryCard(seq, c) # Null THEN marked \cup {c} ELSE marked

HighlightKeepsWhenMissing(seq, marked, c) ==
    IF QueryCard(seq, c) # Null THEN {c} ELSE marked

HighlightResult(seq, marked, c) ==
    LET cleared == {}
    IN  IF QueryCard(seq, c) # Null THEN cleared \cup {c} ELSE cleared

\* What a call leaves in the per-call outcome variables when it neither
\* clicks, nor invokes a url function, nor throws.
Quiet(op, c) ==
    /\ clicked' = Null
    /\ invoked' = "none"
    /\ err' = FALSE
    /\ last' = [op |-> op, arg |-> c]

highlightCard(c) ==
    /\ hl' = HighlightResult(order, hl, c)
    /\ Quiet("highlightCard", c)
    /\ UNCHANGED <<footerVars, cookieVars, order, divs, buttons, lastClickedButton, sel>>

\* ------------------------------------------------- functions.ts card moves
moveCardToTop(c) ==
    LET card == QueryCard(order, c)
    IN  /\ order' = IF card # Null THEN Prepend(order, card) ELSE order
        /\ Quiet("moveCardToTop", c)
        /\ UNCHANGED <<footerVars, cookieVars, hl, divs, buttons, lastClickedButton, sel>>

moveCardToBottom(c) ==
    LET card == QueryCard(order, c)
    IN  /\ order' = IF card # Null THEN AppendNode(order, card) ELSE order
        /\ Quiet("moveCardToBottom", c)
        /\ UNCHANGED <<footerVars, cookieVars, hl, divs, buttons, lastClickedButton, sel>>

moveCardUp(c) ==
    LET card == QueryCard(order, c)
        previousCard == IF card # Null THEN PreviousElementSibling(order, card) ELSE Null
    IN  /\ order' = IF previousCard # Null
                    THEN InsertBefore(order, card, previousCard)
                    ELSE order
        /\ Quiet("moveCardUp", c)
        /\ UNCHANGED <<footerVars, cookieVars, hl, divs, buttons, lastClickedButton, sel>>

moveCardDown(c) ==
    LET card == QueryCard(order, c)
        nextCard == IF card # Null THEN NextElementSibling(order, card) ELSE Null
    IN  /\ order' = IF nextCard # Null
                    THEN InsertBefore(order, nextCard, card)
                    ELSE order
        /\ Quiet("moveCardDown", c)
        /\ UNCHANGED <<footerVars, cookieVars, hl, divs, buttons, lastClickedButton, sel>>

\* neighbour?.querySelector("div"): the neighbour's inner div, named by the
\* card that holds it, or Null.
InnerDiv(withDiv, neighbour) ==
    IF neighbour # Null /\ neighbour \in withDiv THEN neighbour ELSE Null

\* The synthesized click runs the inline handler the server put on the div;
\* that markup is not part of the source, so the click is only recorded.
clickNextCard(c) ==
    LET card == QueryCard(order, c)
        nextCard == IF card # Null THEN NextElementSibling(order, card) ELSE Null
    IN  /\ clicked' = InnerDiv(divs, nextCard)
        /\ invoked' = "none"
        /\ err' = FALSE
        /\ last' = [op |-> "clickNextCard", arg |-> c]
        /\ UNCHANGED <<footerVars, cookieVars, order, hl, divs, buttons, lastClickedButton, sel>>

clickPrevCard(c) ==
    LET card == QueryCard(order, c)
        prevCard == IF card # Null THEN PreviousElementSibling(order, card) ELSE Null
    IN  /\ clicked' = InnerDiv(divs, prevCard)
        /\ invoked' = "none"
        /\ err' = FALSE
        /\ last' = [op |-> "clickPrevCard", arg |-> c]
        /\ UNCHANGED <<footerVars, cookieVars, order, hl, divs, buttons, lastClickedButton, sel>>

\* ------------------------------------------------- functions.js card moves
\* The older forms dereference the query result unguarded: a missing card is
\* an uncaught TypeError raised before anything is changed.
Throws(op, c) ==
    /\ clicked' = Null
    /\ invoked' = "none"
    /\ err' = TRUE
    /\ last' = [op |-> op, arg |-> c]

move_card_to_top(c) ==
    LET card == QueryCard(order, c)
    IN  /\ IF card = Null
           THEN order' = order /\ Throws("move_card_to_top", c)
           ELSE order' = Prepend(order, card) /\ Quiet("move_card_to_top", c)
        /\ UNCHANGED <<footerVars, cookieVars, hl, divs, buttons, lastClickedButton, sel>>

move_card_to_bottom(c) ==
    LET card == QueryCard(order, c)
    IN  /\ IF card = Null
           THEN order' = order /\ Throws("move_card_to_bottom", c)
           ELSE order' = AppendNode(order, card) /\ Quiet("move_card_to_bottom", c)
        /\ UNCHANGED <<footerVars, cookieVars, hl, divs, buttons, lastClickedButton, sel>>

move_card_up(c) ==
    LET card == QueryCard(order, c)
    IN  /\ IF card = Null
           THEN order' = order /\ Throws("move_card_up", c)
           ELSE LET previousCard == PreviousElementSibling(order, card)
                IN  /\ order' = IF previousCard # Null
                                THEN InsertBefore(order, card, previousCard)
                                ELSE order
                    /\ Quiet("move_card_up", c)
        /\ UNCHANGED <<footerVars, cookieVars, hl, divs, buttons, lastClickedButton, sel>>

move_card_down(c) ==
    LET card == QueryCard(order, c)
    IN  /\ IF card = Null
           THEN order' = order /\ Throws("move_card_down", c)
           ELSE LET nextCard == NextElementSibling(order, card)
                IN  /\ order' = IF nextCard # Null
                                THEN InsertBefore(order, nextCard, card)
                                ELSE order
                    /\ Quiet("move_card_down", c)
        /\ UNCHANGED <<footerVars, cookieVars, hl, divs, buttons, lastClickedButton, sel>>

click_next_card(c) ==
    LET card == QueryCard(order, c)
        nextCard == IF card # Null THEN NextElementSibling(order, card) ELSE Null
        innerDiv == InnerDiv(divs, nextCard)
    IN  /\ clicked' = innerDiv
        /\ invoked' = "none"
        /\ err' = (card = Null \/ (nextCard # Null /\ innerDiv = Null))
        /\ last' = [op |-> "click_next_card", arg |-> c]
        /\ UNCHANGED <<footerVars, cookieVars, order, hl, divs, buttons, lastClickedButton, sel>>

click_prev_card(c) ==
    LET card == QueryCard(order, c)
        prevCard == IF card # Null THEN PreviousElementSibling(order, card) ELSE Null
        innerDiv == InnerDiv(divs, prevCard)
    IN  /\ clicked' = innerDiv
        /\ invoked' = "none"
        /\ err' = (card = Null \/ (prevCard # Null /\ innerDiv = Null))
        /\ last' = [op |-> "click_prev_card", arg |-> c]
        /\ UNCHANGED <<footerVars, cookieVars, order, hl, divs, buttons, lastClickedButton, sel>>

\* ------------------------------------------- functions.js DoubleClickV2
\* unclick(): the class leaves every element that carries it and the stored
\* id becomes null.
UnclickKeepsStored(s, l) == [sel |-> {}, stored |-> l]

Unclick(s, l) == [sel |-> {}, stored |-> Null]

\* color_card(button_id): unclick(), then the class is added to the element
\* `#${button_id} div`; when there is none, classList is read off null and
\* the call ends in a TypeError, after unclick() has run.
ColorCardWithoutUnclick(btns, s, l, b) ==
    IF b \in btns
    THEN [sel |-> s \cup {b}, stored |-> l, threw |-> FALSE]
    ELSE [sel |-> s, stored |-> l, threw |-> TRUE]

ColorCard(btns, s, l, b) ==
    LET u == Unclick(s, l)
    IN  IF b \in btns
        THEN [sel |-> u.sel \cup {b}, stored |-> u.stored, threw |-> FALSE]
        ELSE [sel |-> u.sel, stored |-> u.stored, threw |-> TRUE]

\* DoubleClickV2: the url functions are the caller's; the model records
\* which of the two was invoked.
DoubleClickResult(btns, s, l, b) ==
    IF l # b
    THEN LET cc == ColorCard(btns, s, l, b)
         IN  [invoked |-> "first",
              sel |-> cc.sel,
              stored |-> IF cc.threw THEN cc.stored ELSE b,
              threw |-> cc.threw]
    ELSE [invoked |-> "second", sel |-> s, stored |-> l, threw |-> FALSE]

DoubleClickV2(b) ==
    LET r == DoubleClickResult(buttons, sel, lastClickedButton, b)
    IN  /\ invoked' = r.invoked
        /\ sel' = r.sel
        /\ lastClickedButton' = r.stored
        /\ err' = r.threw
        /\ clicked' = Null
        /\ last' = [op |-> "DoubleClickV2", arg |-> b]
        /\ UNCHANGED <<footerVars, cookieVars, order, hl, divs, buttons>>

unclick ==
    LET u == Unclick(sel, lastClickedButton)
    IN  /\ sel' = u.sel
        /\ lastClickedButton' = u.stored
        /\ Quiet("unclick", Null)
        /\ UNCHANGED <<footerVars, cookieVars, order, hl, divs, buttons>>

\* ------------------------------------------------- footer padding sync
\* The padding element before any callback has written its inline height.
NoStyle == -1

Heights == 0..MaxHeight

\* observer.observe(htmxFooter, { childList: true, subtree: true }): a
\* child-list mutation is recorded whether it is of the footer itself
\* ("child") or below it ("subtree").
ObservesChildListOnly(depth) == depth = "child"

Observes(depth) == depth = "child" \/ depth = "subtree"

\* The partial-refresh library swaps content into the footer: a child-list
\* mutation at some depth, after which the footer renders h pixels high.
FooterChange(h, depth) ==
    /\ batches < MaxBatches
    /\ footerHeight' = h
    /\ dirty' = (dirty \/ Observes(depth))
    /\ UNCHANGED <<uiVars, cookieVars, paddingHeight, pending, batches, fired>>

\* The MutationObserver callback: one setTimeout per batch of records.
ObserverCallback ==
    /\ dirty
    /\ dirty' = FALSE
    /\ pending' = pending + 1
    /\ batches' = batches + 1
    /\ UNCHANGED <<uiVars, cookieVars, footerHeight, paddingHeight, fired>>

\* The timer callback: reads clientHeight now and writes it to the padding.
TimerFires ==
    /\ pending > 0
    /\ paddingHeight' = footerHeight
    /\ pending' = pending - 1
    /\ fired' = fired + 1
    /\ UNCHANGED <<uiVars, cookieVars, footerHeight, dirty, batches>>

InitFooter ==
    /\ footerHeight \in Heights
    /\ paddingHeight = NoStyle
    /\ dirty = FALSE
    /\ pending = 0
    /\ batches = 0
    /\ fired = 0

\* The footer left alone.
NoFooter ==
    /\ footerHeight = 0
    /\ paddingHeight = NoStyle
    /\ dirty = FALSE
    /\ pending = 0
    /\ batches = 0
    /\ fired = 0

NextFooter ==
    \/ \E h \in Heights, depth \in {"child", "subtree"} : FooterChange(h, depth)
    \/ ObserverCallback
    \/ TimerFires

\* ------------------------------------------------------ visual config
\* Strings are sequences of characters.
DecimalDigits == <<"0", "1", "2", "3", "4", "5", "6", "7", "8", "9">>

\* Number.prototype.toString, and a number inside a template literal.
RECURSIVE NumToString(_)
NumToString(n) ==
    IF n < 10 THEN <<DecimalDigits[n + 1]>>
    ELSE NumToString(n \div 10) \o <<DecimalDigits[(n % 10) + 1]>>

\* Whether sep occurs in s at position i.
MatchesAt(s, sep, i) ==
    /\ i + Len(sep) - 1 <= Len(s)
    /\ \A k \in 1..Len(sep) : s[i + k - 1] = sep[k]

\* The least element of a set of positions, or 0 when it is empty.
FirstOf(positions) ==
    IF positions = {} THEN 0
    ELSE CHOOSE i \in positions : \A j \in positions : i <= j

\* String.prototype.split with a non-empty separator: the pieces between the
\* occurrences of sep, found left to right, each search starting where the
\* previous occurrence ended.
RECURSIVE SplitFrom(_, _, _)
SplitFrom(s, sep, from) ==
    LET m == FirstOf({ i \in from..Len(s) : MatchesAt(s, sep, i) })
    IN  IF m = 0 THEN <<SubSeq(s, from, Len(s))>>
        ELSE <<SubSeq(s, from, m - 1)>> \o SplitFrom(s, sep, m + Len(sep))

Split(s, sep) == SplitFrom(s, sep, 1)

\* Leading and trailing spaces removed, as the browser does to a cookie's
\* name and value.
RECURSIVE Trim(_)
Trim(s) ==
    IF s # <<>> /\ Head(s) = " " THEN Trim(Tail(s))
    ELSE IF s # <<>> /\ s[Len(s)] = " " THEN Trim(SubSeq(s, 1, Len(s) - 1))
    ELSE s

\* The getter of document.cookie: name=value of every cookie, joined "; ".
RECURSIVE DocumentCookie(_)
DocumentCookie(jar) ==
    IF jar = <<>> THEN <<>>
    ELSE LET c == jar[Len(jar)]
             one == c.name \o <<"=">> \o c.value
         IN  IF Len(jar) = 1 THEN one
             ELSE DocumentCookie(SubSeq(jar, 1, Len(jar) - 1)) \o <<";", " ">> \o one

\* Position of the first ch in s, or 0.
IndexOf(s, ch) == FirstOf({ i \in 1..Len(s) : s[i] = ch })

\* A cookie pair split at position eq, its first "=".
PairAt(pair, eq) ==
    [name |-> Trim(SubSeq(pair, 1, eq - 1)),
     value |-> Trim(SubSeq(pair, eq + 1, Len(pair)))]

\* A cookie of the same name and path is replaced where it stands; a new
\* one is added last.
StoreCookie(jar, cookie) ==
    IF \E i \in 1..Len(jar) : jar[i].name = cookie.name
    THEN [i \in 1..Len(jar) |-> IF jar[i].name = cookie.name THEN cookie ELSE jar[i]]
    ELSE Append(jar, cookie)

\* The setter of document.cookie with "name=value; path=/": the text before
\* the first ";" is the pair; every cookie here has the path "/".
SetDocumentCookie(jar, str) ==
    LET semi == IndexOf(str, ";")
        pair == IF semi = 0 THEN str ELSE SubSeq(str, 1, semi - 1)
    IN  StoreCookie(jar, PairAt(pair, IndexOf(pair, "=")))

\* `playlist-${playlist_id}-columns` and `playlist-${playlist_id}-image-width`
ColumnsName(id) ==
    <<"p", "l", "a", "y", "l", "i", "s", "t", "-">> \o NumToString(id)
        \o <<"-", "c", "o", "l", "u", "m", "n", "s">>

ImageWidthName(id) ==
    <<"p", "l", "a", "y", "l", "i", "s", "t", "-">> \o NumToString(id)
        \o <<"-", "i", "m", "a", "g", "e", "-", "w", "i", "d", "t", "h">>

PathAttribute == <<";", " ", "p", "a", "t", "h", "=", "/">>

\* functions.ts getCookie(name, defaultValue), lines 33-37: the value up to
\* the next ";" when the separator occurs exactly once, else the default.
ValueOrDefault(parts, defaultValue) ==
    IF Len(parts) = 2
    THEN Head(Split(parts[2], <<";">>))
    ELSE NumToString(defaultValue)

\* functions.ts getCookie(name, defaultValue), lines 31-32
GetCookieWithoutLeadingSeparator(jar, name, defaultValue) ==
    ValueOrDefault(Split(DocumentCookie(jar), <<";", " ">> \o name \o <<"=">>),
                   defaultValue)

getCookie(jar, name, defaultValue) ==
    ValueOrDefault(Split(<<";", " ">> \o DocumentCookie(jar),
                         <<";", " ">> \o name \o <<"=">>),
                   defaultValue)

\* The playlists of the page's user.  The decimal form of one id is a prefix
\* of the other's, so that one cookie name is nearly a substring of another.
PlaylistIds == {1, 11}

\* What the two inputs of the visual-config form may hold: nothing, or a
\* positive integer.
FormValues == { <<>> } \cup { NumToString(5 * k) : k \in 1..MaxFormStep }

Defaults == {0, MaxDefault}

\* functions.ts saveVisualConfig(playlist_id); columnsValue and
\* imageWidthValue are the .value of the two inputs when it is called.
saveVisualConfig(id, columnsValue, imageWidthValue) ==
    LET afterColumns ==
            SetDocumentCookie(cookieJar,
                ColumnsName(id) \o <<"=">> \o columnsValue \o PathAttribute)
    IN  /\ cookieJar' =
               SetDocumentCookie(afterColumns,
                   ImageWidthName(id) \o <<"=">> \o imageWidthValue \o PathAttribute)
        /\ savedIds' = savedIds \cup {id}
        /\ savedColumns' = [savedColumns EXCEPT ![id] = columnsValue]
        /\ savedImageWidth' = [savedImageWidth EXCEPT ![id] = imageWidthValue]
        /\ UNCHANGED <<uiVars, footerVars>>

\* The cookies the server set for the page (none, or the CSRF token); no
\* playlist has been saved.
ServerCookie == [name |-> <<"c", "s", "r", "f", "t", "o", "k", "e", "n">>, value |-> <<"x">>]

InitCookies ==
    /\ cookieJar \in { <<>>, <<ServerCookie>> }
    /\ savedIds = {}
    /\ savedColumns = [id \in PlaylistIds |-> <<>>]
    /\ savedImageWidth = [id \in PlaylistIds |-> <<>>]

\* The cookies left alone.
NoCookies ==
    /\ cookieJar = <<>>
    /\ savedIds = {}
    /\ savedColumns = [id \in PlaylistIds |-> <<>>]
    /\ savedImageWidth = [id \in PlaylistIds |-> <<>>]

NextCookies ==
    \E id \in PlaylistIds, c \in FormValues, w \in FormValues : saveVisualConfig(id, c, w)

\* ------------------------------------------------------------- the page
\* The cards the server rendered, in increasing id order; at most one of
\* them highlighted; some of them with an inner div.
InitCards ==
    \E S \in SUBSET CardIds :
        /\ order = SortedSeq(S)
        /\ \E H \in SUBSET S : Cardinality(H) <= 1 /\ hl = H
        /\ divs \in SUBSET S

\* A page without cards.
NoCards == order = <<>> /\ hl = {} /\ divs = {}

\* functions.js line 21: no button is stored, and none is selected.
InitButtons ==
    /\ buttons \in SUBSET ButtonIds
    /\ lastClickedButton = Null
    /\ sel = {}

\* A page without buttons.
NoButtons == buttons = {} /\ lastClickedButton = Null /\ sel = {}

InitCall ==
    /\ clicked = Null
    /\ invoked = "none"
    /\ err = FALSE
    /\ last = [op |-> "load", arg |-> Null]

NextCards ==
    \/ \E c \in CardIds : highlightCard(c)
    \/ \E c \in CardIds : moveCardToTop(c)
    \/ \E c \in CardIds : moveCardToBottom(c)
    \/ \E c \in CardIds : moveCardUp(c)
    \/ \E c \in CardIds : moveCardDown(c)
    \/ \E c \in CardIds : clickNextCard(c)
    \/ \E c \in CardIds : clickPrevCard(c)
    \/ \E c \in CardIds : move_card_to_top(c)
    \/ \E c \in CardIds : move_card_to_bottom(c)
    \/ \E c \in CardIds : move_card_up(c)
    \/ \E c \in CardIds : move_card_down(c)
    \/ \E c \in CardIds : click_next_card(c)
    \/ \E c \in CardIds : click_prev_card(c)

NextButtons ==
    \/ \E b \in ButtonIds : DoubleClickV2(b)
    \/ unclick

NextPage ==
    \/ \E c \in CardIds : highlightCard(c)
    \/ \E c \in CardIds : moveCardToTop(c)
    \/ \E c \in CardIds : moveCardToBottom(c)
    \/ \E c \in CardIds : moveCardUp(c)
    \/ \E c \in CardIds : moveCardDown(c)
    \/ \E c \in CardIds : clickNextCard(c)
    \/ \E c \in CardIds : clickPrevCard(c)
    \/ \E b \in ButtonIds : DoubleClickV2(b)
    \/ unclick

\* The page as the templates use it: the guarded card functions of
\* functions.ts and the double-click buttons of functions.js.
InitPage == InitCards /\ InitButtons /\ InitCall /\ NoFooter /\ NoCookies

Spec == InitPage /\ [][NextPage]_vars

\* The card list alone.
InitCardsOnly == InitCards /\ NoButtons /\ InitCall /\ NoFooter /\ NoCookies

SpecCards == InitCardsOnly /\ [][NextCards]_vars

\* The double-click buttons alone.
InitButtonsOnly == NoCards /\ InitButtons /\ InitCall /\ NoFooter /\ NoCookies

SpecButtons == InitButtonsOnly /\ [][NextButtons]_vars

\* The footer and its padding element.
InitFooterOnly == NoCards /\ NoButtons /\ InitCall /\ InitFooter /\ NoCookies

SpecFooter == InitFooterOnly /\ [][NextFooter]_vars

\* The visual configuration and its cookies.
InitCookiesOnly == NoCards /\ NoButtons /\ InitCall /\ NoFooter /\ InitCookies

SpecCookies == InitCookiesOnly /\ [][NextCookies]_vars

\* ------------------------------------------------------------------ claims
\* The call a step makes is read off last': every action writes its own name
\* and argument there.

\* C1: a DoubleClickV2 call invokes the first action exactly when its button
\* id differs from the stored id, and then stores that id; it invokes the
\* second action exactly when the ids are equal, and leaves the stored id as
\* it is.  (Hence b1,b1 gives first, second; b1,b2,b1 gives first three times.)
C1_ClickRule ==
    [][ last'.op = "DoubleClickV2" =>
            IF lastClickedButton # last'.arg
            THEN invoked' = "first" /\ lastClickedButton' = last'.arg
            ELSE invoked' = "second" /\ lastClickedButton' = lastClickedButton ]_vars

\* C2: at most one card carries the highlight class in every state, and
\* highlightCard(y) right after highlightCard(x), x # y, both cards on the
\* page, leaves exactly y highlighted.
C2_AtMostOneHighlight ==
    /\ [](Cardinality(hl) <= 1)
    /\ [][ ( /\ last.op = "highlightCard"
             /\ last'.op = "highlightCard"
             /\ last.arg # last'.arg
             /\ QueryCard(order, last.arg) # Null
             /\ QueryCard(order, last'.arg) # Null )
           => hl' = {last'.arg} ]_vars

C2_Witness ==
    /\ last.op = "highlightCard"
    /\ Len(order) >= 2
    /\ hl = {last.arg}

\* C3, as claimed: highlightCard of an id that matches no element raises
\* nothing and leaves every card's highlight as it was.
C3_MissingCardKeepsHighlight ==
    [][ (last'.op = "highlightCard" /\ QueryCard(order, last'.arg) = Null)
        => (err' = FALSE /\ hl' = hl) ]_vars

\* C3, amended: highlightCard of an id that matches no element raises
\* nothing, and afterwards no card is highlighted.
C3_MissingCardClearsHighlight ==
    [][ (last'.op = "highlightCard" /\ QueryCard(order, last'.arg) = Null)
        => (err' = FALSE /\ hl' = {}) ]_vars

C3_Witness ==
    /\ last.op = "highlightCard"
    /\ QueryCard(order, last.arg) = Null
    /\ order # <<>>
    /\ hl = {}

\* C4: for a card on the page, moveCardUp exchanges it with its previous
\* sibling and moveCardDown with its next sibling, every other card staying
\* where it is; at the first (last) position the order is unchanged.
C4_SwapWithNeighbour ==
    [][ LET c == last'.arg
            i == IndexIn(order, c)
        IN  /\ (last'.op \in {"moveCardUp", "move_card_up"} /\ QueryCard(order, c) # Null)
               => order' = IF i > 1
                           THEN [order EXCEPT ![i - 1] = order[i], ![i] = order[i - 1]]
                           ELSE order
            /\ (last'.op \in {"moveCardDown", "move_card_down"} /\ QueryCard(order, c) # Null)
               => order' = IF i < Len(order)
                           THEN [order EXCEPT ![i + 1] = order[i], ![i] = order[i + 1]]
                           ELSE order ]_vars

C4_Witness ==
    /\ last = [op |-> "moveCardUp", arg |-> 3]
    /\ order = <<1, 3, 2>>

\* C5: for a card on the page, after moveCardToTop it is the first sibling
\* and after moveCardToBottom the last, the list is as long as before and the
\* other cards keep their relative order; for an absent card the order is
\* unchanged.
C5_ToTopAndBottom ==
    [][ LET c == last'.arg
            others(seq) == SelectSeq(seq, LAMBDA x : x # c)
            kept == Len(order') = Len(order) /\ others(order') = others(order)
        IN  /\ last'.op \in {"moveCardToTop", "move_card_to_top"}
               => IF QueryCard(order, c) # Null
                  THEN order'[1] = c /\ kept
                  ELSE order' = order
            /\ last'.op \in {"moveCardToBottom", "move_card_to_bottom"}
               => IF QueryCard(order, c) # Null
                  THEN order'[Len(order')] = c /\ kept
                  ELSE order' = order ]_vars

C5_Witness ==
    /\ last = [op |-> "moveCardToTop", arg |-> 3]
    /\ order = <<3, 1, 2>>

\* C6: unclick leaves no element with the selected class and the stored id
\* null, and the DoubleClickV2 call that follows an unclick invokes the first
\* action, whichever button it names.
C6_UnclickResets ==
    [][ /\ last'.op = "unclick" => (sel' = {} /\ lastClickedButton' = Null)
        /\ (last.op = "unclick" /\ last'.op = "DoubleClickV2") => invoked' = "first" ]_vars

C6_Witness ==
    /\ last.op = "unclick"
    /\ buttons # {}
    /\ sel = {}
    /\ lastClickedButton = Null

C8_CookieRoundTrip ==
    \A id \in PlaylistIds, d \in Defaults :
        /\ getCookie(cookieJar, ColumnsName(id), d) =
               IF id \in savedIds THEN savedColumns[id] ELSE NumToString(d)
        /\ getCookie(cookieJar, ImageWidthName(id), d) =
               IF id \in savedIds THEN savedImageWidth[id] ELSE NumToString(d)
C8_Witness ==
    /\ savedIds = PlaylistIds
    /\ Len(cookieJar) = 5
    /\ savedColumns[1] # savedColumns[11]
    /\ getCookie(cookieJar, ColumnsName(1), 0) = <<"1", "0">>
    /\ getCookie(cookieJar, ImageWidthName(11), 0) = <<"5">>

\* C9: a call whose target element is missing (the card, the neighbour it
\* needs, or the button's inner element) raises nothing and leaves the card
\* order and the selection of the other buttons as they were.
C9_MissingTargetIsNoOp ==
    [][ LET c == last'.arg
            absent == QueryCard(order, c) = Null
            noPrev == absent \/ InnerDiv(divs, PreviousElementSibling(order, c)) = Null
            noNext == absent \/ InnerDiv(divs, NextElementSibling(order, c)) = Null
            missing ==
                \/ last'.op \in {"moveCardToTop", "moveCardToBottom"} /\ absent
                \/ last'.op = "moveCardUp"
                   /\ (absent \/ PreviousElementSibling(order, c) = Null)
                \/ last'.op = "moveCardDown"
                   /\ (absent \/ NextElementSibling(order, c) = Null)
                \/ last'.op = "clickPrevCard" /\ noPrev
                \/ last'.op = "clickNextCard" /\ noNext
                \/ last'.op = "DoubleClickV2" /\ c \notin buttons
        IN  missing => ( /\ err' = FALSE
                         /\ clicked' = Null
                         /\ order' = order
                         /\ sel' = sel ) ]_vars

\* C10: the stored id and the selected class agree in every state between
\* calls: no element is selected when the stored id is null, and exactly the
\* stored button's inner element is selected otherwise.
C10_StoredMatchesClass ==
    IF lastClickedButton = Null THEN sel = {} ELSE sel = {lastClickedButton}

C10_Witness ==
    /\ last.op = "DoubleClickV2"
    /\ invoked = "second"
    /\ sel = {lastClickedButton}
====
